---- MODULE Spec2Model ----
(***************************************************************************)
(* Model of yrgo::container::Vector<T> (vector.hpp): containers that own a *)
(* heap block through a pointer data_ and an element count size_.          *)
(*                                                                         *)
(* Indices: the source indexes elements from 0, sequences here from 1, so  *)
(* source index i is position i + 1 of a sequence.                         *)
(***************************************************************************)
EXTENDS Integers, Sequences, FiniteSets, TLC

\* ------------------------------------------------------------------ bounds
MaxSize == 2        \* largest element count a container is driven to
MaxBlocks == 3      \* number of heap addresses
MaxRoundTrip == 3   \* largest k of a round trip of k PushBack and k PopBack calls

V == {"A", "B"}     \* the container objects of the program under test
Val == {"x", "y"}   \* element values (T)
Addr == 1..MaxBlocks
nullptr == 0
Poison == "junk"    \* what a read through a dangling or null pointer shows

VARIABLES
    data,     \* data_ of each container: an address or nullptr
    size,     \* size_ of each container
    alive,    \* whether the object is within its lifetime
    blk,      \* contents of each heap block (<<>> when not allocated)
    live,     \* the set of allocated heap blocks
    misuse,   \* uses the last call made of blocks not allocated at the time
    last,     \* the last operation: its name, arguments, result and pre-state
    copied,   \* pairs <<b, a>>: b was made a copy of a, both still alive
    rt,       \* PushBack/PopBack round trip bookkeeping
    lin,      \* the regression model: parameters, training data, Train's loop
    sys       \* the embedded program: main's position, devices, callbacks

vars == <<data, size, alive, blk, live, misuse, last, copied, rt, lin, sys>>

\* The part of the state the container's methods read and write.
State == [data |-> data, size |-> size, blk |-> blk, live |-> live,
          misuse |-> misuse]

\* ------------------------------------------------------------------ heap
\* A block handed to the allocator to be released or reallocated that is not
\* allocated (released before, and null is not a block) is a second release.
Released(s, block) ==
    IF block # nullptr /\ block \notin s.live
    THEN [s EXCEPT !.misuse = @ \cup {"release"}]
    ELSE s

\* What reading element i (1-based) of the block at address a yields.
Read(s, a, i) ==
    IF a \in s.live /\ i \in 1..Len(s.blk[a]) THEN s.blk[a][i] ELSE Poison

\* The values a container shows through operator[] for indices 0..Size()-1.
Values(s, v) == [i \in 1..s.size[v] |-> Read(s, s.data[v], i)]

\* The lowest address that holds no block: where a first-fit allocator puts a
\* new block. Addresses are interchangeable, so which free one is handed out
\* makes no difference to a container.
FirstFree(s) ==
    IF Addr \ s.live = {} THEN nullptr
    ELSE CHOOSE a \in Addr \ s.live : \A b \in Addr \ s.live : a <= b

\* detail::Resize<T>(block, new_size): reallocation. The choice r carries the
\* allocator's outcome: r.out says whether it fails, resizes the block where it
\* is, or moves it to a new block and releases the old one; r.fill is the
\* indeterminate content of the newly obtained elements. On failure the heap is
\* untouched and nullptr is returned. On success the first min(old, new)
\* elements are kept. A request for zero elements is a request like any other.
detail_Resize(s, block, new_size, r) ==
    LET old == IF block \in s.live THEN s.blk[block] ELSE <<>>
        to == CASE r.out = "inplace" -> block
                [] r.out = "moved" -> FirstFree(s)
                [] OTHER -> nullptr
        new == [i \in 1..new_size |->
                   IF i <= Len(old) THEN old[i]
                   ELSE IF i - Len(old) \in DOMAIN r.fill
                        THEN r.fill[i - Len(old)] ELSE Poison]
    IN  IF to = nullptr
        THEN [st |-> Released(s, block), ptr |-> nullptr]
        ELSE [st |-> [Released(s, block) EXCEPT
                       !.blk = [a \in Addr |->
                                   IF a = to THEN new
                                   ELSE IF a = block THEN <<>>
                                   ELSE s.blk[a]],
                       !.live = (s.live \ {block}) \cup {to}],
              ptr |-> to]

\* detail::Delete<T>(block): releases the block and leaves the caller's
\* pointer null. Returns the heap and the pointer's new value.
detail_Delete(s, block) ==
    [st |-> [Released(s, block) EXCEPT
               !.blk = [a \in Addr |-> IF a = block THEN <<>> ELSE s.blk[a]],
               !.live = s.live \ {block}],
     ptr |-> nullptr]

\* The allocator's possible outcomes for a reallocation that obtains k new
\* elements.
Choice(k) == [out : {"fail", "inplace", "moved"}, fill : [1..k -> Val]]

\* The number of elements a reallocation from old to new elements obtains.
Grown(old, new) == IF new > old THEN new - old ELSE 0

\* ---------------------------------------------------------------- Vector
\* data_[i - 1] = x. A store through a pointer that addresses no element is
\* outside the container's contract; no code path of the class makes one.
Store(s, v, i, x) ==
    LET a == s.data[v]
    IN  IF a \in s.live /\ i \in 1..Len(s.blk[a])
        THEN [s EXCEPT !.blk[a] = [s.blk[a] EXCEPT ![i] = x]]
        ELSE s

\* Data members as initialised at the start of every constructor.
Fresh(s, v) == [s EXCEPT !.data[v] = nullptr, !.size[v] = 0]

\* Clear that releases the block and leaves size_ as it was.
Clear_KeepsSize(s, v) ==
    LET d == detail_Delete(s, s.data[v])
    IN  [d.st EXCEPT !.data[v] = d.ptr]

\* void Clear()
Clear(s, v) ==
    LET d == detail_Delete(s, s.data[v])
    IN  [d.st EXCEPT !.data[v] = d.ptr, !.size[v] = 0]

\* Resize with size_ assigned before the allocation's result is looked at.
Resize_SizeBeforeCheck(s, v, new_size, r) ==
    LET copy == detail_Resize(s, s.data[v], new_size, r)
    IN  IF copy.ptr = nullptr
        THEN [st |-> [copy.st EXCEPT !.size[v] = new_size], ret |-> FALSE]
        ELSE [st |-> [copy.st EXCEPT !.data[v] = copy.ptr,
                                     !.size[v] = new_size],
              ret |-> TRUE]

\* Resize that allocates a new block instead of reallocating data_.
Resize_AllocatesAnew(s, v, new_size, r) ==
    LET copy == detail_Resize(s, nullptr, new_size, r)
    IN  IF copy.ptr = nullptr
        THEN [st |-> copy.st, ret |-> FALSE]
        ELSE [st |-> [copy.st EXCEPT !.data[v] = copy.ptr,
                                     !.size[v] = new_size],
              ret |-> TRUE]

\* Resize that returns true whatever the allocation did.
Resize_ReportsSuccess(s, v, new_size, r) ==
    LET copy == detail_Resize(s, s.data[v], new_size, r)
    IN  IF copy.ptr = nullptr
        THEN [st |-> copy.st, ret |-> TRUE]
        ELSE [st |-> [copy.st EXCEPT !.data[v] = copy.ptr,
                                     !.size[v] = new_size],
              ret |-> TRUE]

\* bool Resize(new_size)
Resize(s, v, new_size, r) ==
    LET copy == detail_Resize(s, s.data[v], new_size, r)
    IN  IF copy.ptr = nullptr
        THEN [st |-> copy.st, ret |-> FALSE]
        ELSE [st |-> [copy.st EXCEPT !.data[v] = copy.ptr,
                                     !.size[v] = new_size],
              ret |-> TRUE]

\* The value a const T& argument shows when it is read: a reference to an
\* object outside the heap (kind "ext") or to element idx of block addr (kind
\* "elem"), which shows junk once that block has been released.
Deref(s, ref, junk) ==
    IF ref.kind = "ext" THEN ref.val
    ELSE IF ref.addr \in s.live /\ ref.idx \in 1..Len(s.blk[ref.addr])
         THEN s.blk[ref.addr][ref.idx]
         ELSE junk

\* Reading a const T& argument that refers to an element of a block that has
\* been released is a read of a released block.
Fetched(s, ref) ==
    IF ref.kind = "elem" /\ ref.addr \notin s.live
    THEN [s EXCEPT !.misuse = @ \cup {"read"}]
    ELSE s

\* PushBack that stores at data_[size_ - 2].
PushBack_WrongIndex(s, v, ref, r, junk) ==
    LET q == Resize(s, v, s.size[v] + 1, r)
    IN  IF q.ret
        THEN [st |-> Store(Fetched(q.st, ref), v, q.st.size[v] - 1,
                           Deref(q.st, ref, junk)),
              ret |-> TRUE]
        ELSE [st |-> q.st, ret |-> FALSE]

\* bool PushBack(const T& value)
PushBack(s, v, ref, r, junk) ==
    LET q == Resize(s, v, s.size[v] + 1, r)
    IN  IF q.ret
        THEN [st |-> Store(Fetched(q.st, ref), v, q.st.size[v],
                           Deref(q.st, ref, junk)),
              ret |-> TRUE]
        ELSE [st |-> q.st, ret |-> FALSE]

\* PopBack that clears only an empty container (size_ < 1).
PopBack_ResizeToZero(s, v, r) ==
    IF s.size[v] < 1
    THEN [st |-> Clear(s, v), ret |-> TRUE]
    ELSE Resize(s, v, s.size[v] - 1, r)

\* PopBack that reports success for size_ <= 1 without clearing.
PopBack_NoClear(s, v, r) ==
    IF s.size[v] <= 1
    THEN [st |-> s, ret |-> TRUE]
    ELSE Resize(s, v, s.size[v] - 1, r)

\* bool PopBack()
PopBack(s, v, r) ==
    IF s.size[v] <= 1
    THEN [st |-> Clear(s, v), ret |-> TRUE]
    ELSE Resize(s, v, s.size[v] - 1, r)

\* void Assign(const Vector& source, offset): the loop from iteration i on.
RECURSIVE AssignLoop(_, _, _, _, _)
AssignLoop(s, v, source, offset, i) ==
    IF offset + i < s.size[v] /\ i < s.size[source]
    THEN AssignLoop(Store(s, v, offset + i + 1, Read(s, s.data[source], i + 1)),
                    v, source, offset, i + 1)
    ELSE s

Assign(s, v, source, offset) == AssignLoop(s, v, source, offset, 0)

\* void Assign(const T (&values)[size], offset): the loop from iteration i on.
RECURSIVE AssignValuesLoop(_, _, _, _, _)
AssignValuesLoop(s, v, values, offset, i) ==
    IF i < Len(values) /\ offset + i < s.size[v]
    THEN AssignValuesLoop(Store(s, v, offset + i + 1, values[i + 1]),
                          v, values, offset, i + 1)
    ELSE s

AssignValues(s, v, values, offset) == AssignValuesLoop(s, v, values, offset, 0)

\* Copy that shares the source's block instead of duplicating it.
Copy_Shallow(s, v, source, r) ==
    [st |-> [s EXCEPT !.data[v] = s.data[source], !.size[v] = s.size[source]],
     ret |-> TRUE]

\* bool Copy(const Vector& source)
Copy(s, v, source, r) ==
    LET q == Resize(s, v, s.size[source], r)
    IN  IF q.ret
        THEN [st |-> Assign(q.st, v, source, 0), ret |-> TRUE]
        ELSE [st |-> q.st, ret |-> FALSE]

\* AddValues that reads the offset after the resize.
AddValues_OffsetAfterResize(s, v, source, r) ==
    LET q == Resize(s, v, s.size[v] + s.size[source], r)
        offset == q.st.size[v]
    IN  IF q.ret
        THEN [st |-> Assign(q.st, v, source, offset), ret |-> TRUE]
        ELSE [st |-> q.st, ret |-> FALSE]

\* bool AddValues(const Vector& source)
AddValues(s, v, source, r) ==
    LET offset == s.size[v]
        q == Resize(s, v, s.size[v] + s.size[source], r)
    IN  IF q.ret
        THEN [st |-> Assign(q.st, v, source, offset), ret |-> TRUE]
        ELSE [st |-> q.st, ret |-> FALSE]

\* bool AddValues(const T (&values)[size])
AddValuesLiteral(s, v, values, r) ==
    LET offset == s.size[v]
        q == Resize(s, v, s.size[v] + Len(values), r)
    IN  IF q.ret
        THEN [st |-> AssignValues(q.st, v, values, offset), ret |-> TRUE]
        ELSE [st |-> q.st, ret |-> FALSE]

\* operator= that copies without clearing first.
operator_assign_NoClear(s, v, source, r) == Copy(s, v, source, r)

\* void operator=(const Vector& source). ret is the result of the inner Copy,
\* which the operator discards.
operator_assign(s, v, source, r) == Copy(Clear(s, v), v, source, r)

\* void operator+=(const Vector& source). ret is the result of the inner
\* AddValues, which the operator discards.
operator_plus_assign(s, v, source, r) == AddValues(s, v, source, r)

\* void operator+=(const T (&values)[size])
operator_plus_assign_values(s, v, values, r) == AddValuesLiteral(s, v, values, r)

\* Constructor that initialises size_ to the requested size before resizing.
Vector_size_PresetsSize(s, v, n, r) ==
    Resize([Fresh(s, v) EXCEPT !.size[v] = n], v, n, r)

\* Vector(const size_t size)
Vector_size(s, v, n, r) == Resize(Fresh(s, v), v, n, r)

\* Constructor that resizes and leaves the values unassigned.
Vector_values_NoAssign(s, v, values, r) == Resize(Fresh(s, v), v, Len(values), r)

\* Vector(const T (&values)[size])
Vector_values(s, v, values, r) ==
    LET q == Resize(Fresh(s, v), v, Len(values), r)
    IN  IF q.ret
        THEN [st |-> AssignValues(q.st, v, values, 0), ret |-> TRUE]
        ELSE q

\* Vector(const Vector& source)
Vector_copy(s, v, source, r) == Copy(Fresh(s, v), v, source, r)

\* Move constructor that leaves the source's size_ as it was.
Vector_move_KeepsSourceSize(s, v, source) ==
    LET t == Fresh(s, v)
    IN  [t EXCEPT !.data = [t.data EXCEPT ![v] = t.data[source],
                                          ![source] = nullptr],
                  !.size = [t.size EXCEPT ![v] = t.size[source]]]

\* Move constructor that leaves the source's data_ pointing at the block.
Vector_move_SharesBlock(s, v, source) ==
    LET t == Fresh(s, v)
    IN  [t EXCEPT !.data = [t.data EXCEPT ![v] = t.data[source]],
                  !.size = [t.size EXCEPT ![v] = t.size[source],
                                          ![source] = 0]]

\* Vector(Vector&& source)
Vector_move(s, v, source) ==
    LET t == Fresh(s, v)
    IN  [t EXCEPT !.data = [t.data EXCEPT ![v] = t.data[source],
                                          ![source] = nullptr],
                  !.size = [t.size EXCEPT ![v] = t.size[source],
                                          ![source] = 0]]

\* ~Vector()
Vector_dtor(s, v) == Clear(s, v)

\* Vector(void) = default
Vector_default(s, v) == Fresh(s, v)

\* ------------------------------------------------- yrgo::LinReg (lin_reg.hpp)
\* The regression model's header is not part of the sources; its operations
\* are modelled from their description and from the calls made on the model
\* in main.cpp and lin_reg_test.cpp.
\*
\* Numbers: bias, weight and predictions are doubles in the source.  Here they
\* are fixed-point integers counting 1/Scale; inputs x and outputs y are the
\* whole numbers the tests and main.cpp use.
Scale == 100000
LearningRatePct == 1     \* learning rate, in percent
TrainEpochs == 1000      \* Train(1000) of main.cpp and of the tests
MaxEpochs == 2           \* other epoch counts Train is driven with: 0..MaxEpochs
MaxTrainCalls == 2       \* Train calls made on one model
MaxLoads == 2            \* LoadTrainingData calls made on one model
MaxX == 4                \* Predict is driven with x in 0..MaxX

\* a / d rounded to the nearest integer, d > 0
RoundDiv(a, d) == (2 * a + d) \div (2 * d)

RECURSIVE Sum(_, _)
Sum(f, n) == IF n = 0 THEN 0 ELSE f[n] + Sum(f, n - 1)

\* The training sets of lin_reg_test.cpp (Test1, Test2, Test3; main.cpp uses
\* Test3's) and the empty training set.
TestInputs == <<0, 1, 2, 3, 4>>
TestOutputs == << <<2, 4, 6, 8, 10>>, <<-5, -2, 1, 4, 7>>,
                 <<-50, 50, 150, 250, 350>> >>
TestSet(k) == [inputs |-> TestInputs, outputs |-> TestOutputs[k]]
EmptySet == [inputs |-> <<>>, outputs |-> <<>>]
TrainingSets == {EmptySet} \cup {TestSet(k) : k \in 1..Len(TestOutputs)}

\* bias, weight and training data of a model
Params(m) == [bias |-> m.bias, weight |-> m.weight,
              inputs |-> m.inputs, outputs |-> m.outputs]

\* LinReg(void): zero parameters, no training data
LinReg_default == [bias |-> 0, weight |-> 0, inputs |-> <<>>, outputs |-> <<>>]

\* LoadTrainingData(inputs, outputs)
LoadTrainingData(m, inputs, outputs) ==
    [m EXCEPT !.inputs = inputs, !.outputs = outputs]

Predict_Adapts(m, x) ==
    [st |-> [m EXCEPT !.bias = @ + 1], ret |-> m.bias + m.weight * x]

\* Predict(x): bias + weight * x
Predict(m, x) == [st |-> m, ret |-> m.bias + m.weight * x]

TrainEpoch_StepsWithoutData(m) ==
    [m EXCEPT !.bias = @ - LearningRatePct, !.weight = @ - LearningRatePct]

\* One epoch of Train: batch gradient descent over the whole training set with
\* the mean error gradients; nothing happens on an empty training set.
TrainEpoch(m) ==
    LET n == Len(m.inputs)
        err == [i \in 1..n |->
                   m.bias + m.weight * m.inputs[i] - m.outputs[i] * Scale]
        grad_bias == Sum(err, n)                                  \* n * mean
        grad_weight == Sum([i \in 1..n |-> err[i] * m.inputs[i]], n)
    IN  IF n = 0 THEN m
        ELSE [m EXCEPT
                !.bias = @ - RoundDiv(grad_bias * LearningRatePct, n * 100),
                !.weight = @ - RoundDiv(grad_weight * LearningRatePct, n * 100)]

\* The number of passes Train(epochs) makes.
TrainPasses_AtLeastOne(epochs) == IF epochs = 0 THEN 1 ELSE epochs

TrainPasses(epochs) == epochs

\* The model object with the position of Train's loop (left: passes still to
\* make), the Train calls that returned (runs: epochs and training set of
\* each) and the record of the last call made on it (prev: the call before).
NoLinCall == [op |-> "none", arg |-> 0, ret |-> 0, pre |-> LinReg_default,
              prev |-> [op |-> "none", arg |-> 0, ret |-> 0]]

LinCall(m, op, arg, ret) ==
    [op |-> op, arg |-> arg, ret |-> ret, pre |-> Params(m),
     prev |-> [op |-> m.call.op, arg |-> m.call.arg, ret |-> m.call.ret]]

NoLin == [bias |-> LinReg_default.bias, weight |-> LinReg_default.weight,
          inputs |-> LinReg_default.inputs, outputs |-> LinReg_default.outputs,
          pc |-> "idle", left |-> 0, runs |-> <<>>, loads |-> 0,
          call |-> NoLinCall]

\* ------------------------------------------------------------ main.cpp
\* The embedded program: Setup, the main loop and the three callback routines.
\* The drivers (GPIO, Timer, adc, serial, watchdog) are not part of the
\* sources; they are modelled by what main.cpp's comments say of them:
\*   - a callback runs when its interrupt is enabled and it is registered;
\*   - the button's interrupt needs the pin's interrupt (EnableInterrupt) and
\*     the interrupts of its I/O port (Enable/DisableInterruptsOnIoPort);
\*   - a started timer interrupts periodically; Elapsed() counts the
\*     interrupts and is true, restarting the count, at the timer's period.
Timer0Ticks == 2      \* interrupts of timer0 that make its 300 ms
Timer1Ticks == 3      \* interrupts of timer1 that make its 60 s
WatchdogTicks == 2    \* how far the watchdog counts between two resets by main

\* adc::Read(adc::Pin::A2): the ends of the 10-bit range
AdcReadings == {0, 1023}

\* The statements of Setup in program order.
SetupOrder_InterruptsFirst ==
    <<"button1.SetCallbackRoutine", "timer0.SetCallback", "timer1.SetCallback",
      "button1.EnableInterrupt", "inputs", "outputs", "LoadTrainingData",
      "Train", "serial::Init", "PredictTemp", "timer1.Start",
      "watchdog::Init", "watchdog::EnableSystemReset">>

SetupOrder ==
    <<"inputs", "outputs", "LoadTrainingData", "Train", "serial::Init",
      "PredictTemp", "timer1.Start", "button1.SetCallbackRoutine",
      "timer0.SetCallback", "timer1.SetCallback", "button1.EnableInterrupt",
      "watchdog::Init", "watchdog::EnableSystemReset">>

\* main is in its while loop
InLoop(s) == s.pc = Len(SetupOrder) + 1

NoTimer == [on |-> FALSE, count |-> 0]
NoEvent == [cb |-> "none", cond |-> FALSE, predicted |-> FALSE,
            restarted |-> FALSE]

\* The program before main: the static objects of main.cpp are constructed.
\* did: the calls of note (Predict, Printf, timer1.Restart) made by the step of
\* main or the callback that ran last; event: that step, the condition it
\* tested and what it did.
NoSys == [pc |-> 1, inputs |-> <<>>, outputs |-> <<>>, trains |-> 0,
          registered |-> {}, pin_irq |-> FALSE, port_irq |-> FALSE,
          timer0 |-> NoTimer, timer1 |-> NoTimer,
          serial |-> FALSE, printed |-> 0,
          wdt |-> [init |-> FALSE, reset |-> FALSE, count |-> 0],
          did |-> {}, event |-> NoEvent]

\* Train(epochs) is entered: the loop has epochs passes to make.
TrainEnter(m, epochs) ==
    [m EXCEPT !.pc = "training", !.left = TrainPasses(epochs),
              !.call = LinCall(m, "Train", epochs, 0)]

\* Train returns.
TrainReturn(m) ==
    [m EXCEPT !.pc = "idle",
              !.runs = Append(@, [epochs |-> m.call.arg, inputs |-> m.inputs,
                                  outputs |-> m.outputs])]

\* Timer::Elapsed()
Elapsed(timer, ticks) ==
    IF timer.count + 1 >= ticks
    THEN [timer |-> [timer EXCEPT !.count = 0], ret |-> TRUE]
    ELSE [timer |-> [timer EXCEPT !.count = @ + 1], ret |-> FALSE]

\* PredictTemp(): st is the pair of the program's and the model's state, adc
\* the reading of pin A2.
PredictTemp(st, adc) ==
    LET uin == (adc * 5) \div 1023
        q == Predict(st.lin, uin)
    IN  [sys |-> [st.sys EXCEPT !.printed = RoundDiv(q.ret, Scale),
                                !.did = @ \cup {"Predict", "Printf"}],
         lin |-> [q.st EXCEPT !.call = LinCall(st.lin, "Predict", uin, q.ret)]]

ButtonCallback_AnyEdge(st, level, adc) ==
    LET st1 == [st EXCEPT !.sys.port_irq = FALSE, !.sys.timer0.on = TRUE]
    IN  [PredictTemp(st1, adc) EXCEPT
           !.sys.timer1 = [on |-> TRUE, count |-> 0],
           !.sys.did = @ \cup {"timer1.Restart"}]

\* ButtonCallback(): level is what button1.Read() returns.
ButtonCallback(st, level, adc) ==
    LET st1 == [st EXCEPT !.sys.port_irq = FALSE, !.sys.timer0.on = TRUE]
    IN  IF level
        THEN [PredictTemp(st1, adc) EXCEPT
                !.sys.timer1 = [on |-> TRUE, count |-> 0],
                !.sys.did = @ \cup {"timer1.Restart"}]
        ELSE st1

Timer0Callback_NoReenable(st) ==
    LET e == Elapsed(st.sys.timer0, Timer0Ticks)
    IN  IF e.ret
        THEN [st EXCEPT !.sys.timer0 = [e.timer EXCEPT !.on = FALSE]]
        ELSE [st EXCEPT !.sys.timer0 = e.timer]

\* Timer0Callback()
Timer0Callback(st) ==
    LET e == Elapsed(st.sys.timer0, Timer0Ticks)
    IN  IF e.ret
        THEN [st EXCEPT !.sys.timer0 = [e.timer EXCEPT !.on = FALSE],
                        !.sys.port_irq = TRUE]
        ELSE [st EXCEPT !.sys.timer0 = e.timer]

\* Timer1Callback()
Timer1Callback(st, adc) ==
    LET e == Elapsed(st.sys.timer1, Timer1Ticks)
        st1 == [st EXCEPT !.sys.timer1 = e.timer]
    IN  IF e.ret THEN PredictTemp(st1, adc) ELSE st1

\* One statement of Setup.
Statement(st, stmt, adc) ==
    CASE stmt = "inputs" -> [st EXCEPT !.sys.inputs = TestInputs]
      [] stmt = "outputs" -> [st EXCEPT !.sys.outputs = TestOutputs[3]]
      [] stmt = "LoadTrainingData" ->
             [st EXCEPT !.lin = [LoadTrainingData(st.lin, st.sys.inputs,
                                                  st.sys.outputs) EXCEPT
                                   !.loads = @ + 1,
                                   !.call = LinCall(st.lin, "LoadTrainingData",
                                                    Len(st.sys.inputs), 0)]]
      [] stmt = "Train" ->
             [st EXCEPT !.lin = TrainEnter(st.lin, TrainEpochs),
                        !.sys.trains = @ + 1]
      [] stmt = "serial::Init" -> [st EXCEPT !.sys.serial = TRUE]
      [] stmt = "PredictTemp" -> PredictTemp(st, adc)
      [] stmt = "timer1.Start" -> [st EXCEPT !.sys.timer1.on = TRUE]
      [] stmt = "button1.SetCallbackRoutine" ->
             [st EXCEPT !.sys.registered = @ \cup {"ButtonCallback"}]
      [] stmt = "timer0.SetCallback" ->
             [st EXCEPT !.sys.registered = @ \cup {"Timer0Callback"}]
      [] stmt = "timer1.SetCallback" ->
             [st EXCEPT !.sys.registered = @ \cup {"Timer1Callback"}]
      [] stmt = "button1.EnableInterrupt" ->
             [st EXCEPT !.sys.pin_irq = TRUE, !.sys.port_irq = TRUE]
      [] stmt = "watchdog::Init" -> [st EXCEPT !.sys.wdt.init = TRUE]
      [] stmt = "watchdog::EnableSystemReset" ->
             [st EXCEPT !.sys.wdt.reset = TRUE]

\* ------------------------------------------------------------- the program
\* Literals T values[size], size >= 1.
Literals == UNION {[1..n -> Val] : n \in 1..MaxSize}

\* Round trip bookkeeping: PushBack calls made, how many of them returned true,
\* PopBack calls made, how many of them returned false.
NoRt == [pushes |-> 0, grown |-> 0, pops |-> 0, failed |-> 0]

\* What every container shows before an operation.
Pre == [w \in V |-> Values(State, w)]

\* What the caller of a public method receives: the bool the method returns, or
\* nothing from the operators and constructors, which return no value.
Returned(op, ret) ==
    IF op \in {"Resize", "PushBack", "PushBack(v[i])", "PopBack"}
    THEN (IF ret THEN "true" ELSE "false")
    ELSE "void"

\* Whether the reallocation of v's block to new_size elements, made from state
\* s with the allocator's outcome r, fails.
Fails(s, v, new_size, r) == detail_Resize(s, s.data[v], new_size, r).ptr = nullptr

\* The record of a call: ret is the result of the method or, for an operator
\* or constructor, of the private method it wraps; failed says whether the
\* allocation the call made failed; out is what the caller receives.
Rec(op, self, src, n, val, ret, failed) ==
    [op |-> op, self |-> self, src |-> src, n |-> n, val |-> val,
     ret |-> ret, failed |-> failed, out |-> Returned(op, ret), pre |-> Pre]

\* No call is being looked at: the caller is between two calls.
NoCall == [op |-> "none", self |-> "-", src |-> "-", n |-> 0, val |-> "-",
           ret |-> TRUE, failed |-> FALSE, out |-> "void",
           pre |-> [w \in V |-> <<>>]]

Idle == last.op = "none"

Apply(s) ==
    /\ data' = s.data
    /\ size' = s.size
    /\ blk' = s.blk
    /\ live' = s.live
    /\ misuse' = s.misuse

Init ==
    /\ data = [v \in V |-> nullptr]
    /\ size = [v \in V |-> 0]
    /\ alive = [v \in V |-> FALSE]
    /\ blk = [a \in Addr |-> <<>>]
    /\ live = {}
    /\ misuse = {}
    /\ last = NoCall
    /\ copied = {}
    /\ rt = NoRt
    /\ lin = NoLin
    /\ sys = NoSys

\* A constructor starts the lifetime of v; no copy relation involves it yet.
Born(v) ==
    /\ Idle
    /\ ~alive[v]
    /\ alive' = [alive EXCEPT ![v] = TRUE]

DoVectorDefault ==
    \E v \in V :
        /\ Born(v)
        /\ Apply(Vector_default(State, v))
        /\ last' = Rec("Vector()", v, "-", 0, "-", TRUE,
                       FALSE)
        /\ UNCHANGED <<copied, rt, lin, sys>>

DoVectorSize ==
    \E v \in V :
        /\ Born(v)
        /\ \E n \in 0..MaxSize :
             \E r \in Choice(n) :
               LET q == Vector_size(State, v, n, r)
               IN  /\ Apply(q.st)
                   /\ last' = Rec("Vector(size)", v, "-", n, "-", q.ret,
                                  Fails(Fresh(State, v), v, n, r))
        /\ UNCHANGED <<copied, rt, lin, sys>>

DoVectorValues ==
    \E v \in V :
        /\ Born(v)
        /\ \E values \in Literals :
             \E r \in Choice(Len(values)) :
               LET q == Vector_values(State, v, values, r)
               IN  /\ Apply(q.st)
                   /\ last' = Rec("Vector(values)", v, "-", Len(values), values,
                              q.ret,
                                  Fails(Fresh(State, v), v, Len(values), r))
        /\ UNCHANGED <<copied, rt, lin, sys>>

DoVectorCopy ==
    \E v \in V, source \in V :
        /\ Born(v)
        /\ alive[source]
        /\ \E r \in Choice(size[source]) :
               LET q == Vector_copy(State, v, source, r)
               IN  /\ Apply(q.st)
                   /\ last' = Rec("Vector(copy)", v, source, 0, "-", q.ret,
                                  Fails(Fresh(State, v), v, size[source], r))
                   /\ copied' = IF q.ret THEN copied \cup {<<v, source>>}
                                ELSE copied
        /\ UNCHANGED <<rt, lin, sys>>

DoVectorMove ==
    \E v \in V, source \in V :
        /\ Born(v)
        /\ alive[source]
        /\ Apply(Vector_move(State, v, source))
        /\ last' = Rec("Vector(move)", v, source, 0, "-", TRUE,
                       FALSE)
        /\ copied' = {p \in copied : p[1] # source /\ p[2] # source}
        /\ UNCHANGED <<rt, lin, sys>>

DoDtor ==
    \E v \in V :
        /\ Idle
        /\ alive[v]
        /\ alive' = [alive EXCEPT ![v] = FALSE]
        /\ Apply(Vector_dtor(State, v))
        /\ last' = Rec("~Vector", v, "-", 0, "-", TRUE,
                       FALSE)
        /\ copied' = {p \in copied : p[1] # v /\ p[2] # v}
        /\ UNCHANGED <<rt, lin, sys>>

\* v[index] = value through operator[], index < Size().
DoWrite ==
    \E v \in V :
        /\ Idle
        /\ alive[v]
        /\ \E i \in 1..size[v], value \in Val :
               /\ Apply(Store(State, v, i, value))
               /\ last' = Rec("operator[]", v, "-", i, value, TRUE,
                              FALSE)
        /\ UNCHANGED <<alive, copied, rt, lin, sys>>

DoClear ==
    \E v \in V :
        /\ Idle
        /\ alive[v]
        /\ Apply(Clear(State, v))
        /\ last' = Rec("Clear", v, "-", 0, "-", TRUE,
                       FALSE)
        /\ UNCHANGED <<alive, copied, rt, lin, sys>>

DoResize ==
    \E v \in V :
        /\ Idle
        /\ alive[v]
        /\ \E n \in 0..MaxSize :
             \E r \in Choice(Grown(size[v], n)) :
               LET q == Resize(State, v, n, r)
               IN  /\ Apply(q.st)
                   /\ last' = Rec("Resize", v, "-", n, "-", q.ret,
                                  Fails(State, v, n, r))
        /\ UNCHANGED <<alive, copied, rt, lin, sys>>

\* v.PushBack(value), value an object outside the container.
DoPushBack ==
    \E v \in V :
        /\ Idle
        /\ alive[v]
        /\ size[v] < MaxSize
        /\ \E value \in Val, r \in Choice(1) :
               LET q == PushBack(State, v, [kind |-> "ext", val |-> value],
                                 r, value)
               IN  /\ Apply(q.st)
                   /\ last' = Rec("PushBack", v, "-", 0, value, q.ret,
                                  Fails(State, v, size[v] + 1, r))
        /\ UNCHANGED <<alive, copied, rt, lin, sys>>

\* v.PushBack(v[index]): the argument refers to an element of v itself.
DoPushBackElement ==
    \E v \in V :
        /\ Idle
        /\ alive[v]
        /\ size[v] < MaxSize
        /\ \E i \in 1..size[v], r \in Choice(1), junk \in Val :
               LET ref == [kind |-> "elem", addr |-> data[v], idx |-> i]
                   q == PushBack(State, v, ref, r, junk)
               IN  /\ Apply(q.st)
                   /\ last' = Rec("PushBack(v[i])", v, v, i,
                                  Read(State, data[v], i), q.ret,
                                  Fails(State, v, size[v] + 1, r))
        /\ UNCHANGED <<alive, copied, rt, lin, sys>>

DoPopBack ==
    \E v \in V :
        /\ Idle
        /\ alive[v]
        /\ \E r \in Choice(0) :
               LET q == PopBack(State, v, r)
               IN  /\ Apply(q.st)
                   /\ last' = Rec("PopBack", v, "-", 0, "-", q.ret,
                                  size[v] > 1 /\ Fails(State, v, size[v] - 1, r))
        /\ UNCHANGED <<alive, copied, rt, lin, sys>>

DoAssign ==
    \E v \in V, source \in V :
        /\ Idle
        /\ alive[v]
        /\ alive[source]
        /\ \E r \in Choice(size[source]) :
               LET q == operator_assign(State, v, source, r)
               IN  /\ Apply(q.st)
                   /\ last' = Rec("operator=", v, source, 0, "-", q.ret,
                                  Fails(Clear(State, v), v, Clear(State, v).size[source], r))
                   /\ copied' = IF q.ret /\ v # source
                                THEN copied \cup {<<v, source>>} ELSE copied
        /\ UNCHANGED <<alive, rt, lin, sys>>

DoPlusAssign ==
    \E v \in V, source \in V :
        /\ Idle
        /\ alive[v]
        /\ alive[source]
        /\ size[v] + size[source] <= MaxSize
        /\ \E r \in Choice(size[source]) :
               LET q == operator_plus_assign(State, v, source, r)
               IN  /\ Apply(q.st)
                   /\ last' = Rec("operator+=", v, source, 0, "-", q.ret,
                                  Fails(State, v, size[v] + size[source], r))
        /\ UNCHANGED <<alive, copied, rt, lin, sys>>

DoPlusAssignValues ==
    \E v \in V :
        /\ Idle
        /\ alive[v]
        /\ \E values \in Literals :
             /\ size[v] + Len(values) <= MaxSize
             /\ \E r \in Choice(Len(values)) :
                  LET q == operator_plus_assign_values(State, v, values, r)
                  IN  /\ Apply(q.st)
                      /\ last' = Rec("operator+=(values)", v, "-", Len(values),
                                     "-", q.ret,
                                     Fails(State, v, size[v] + Len(values), r))
        /\ UNCHANGED <<alive, copied, rt, lin, sys>>

\* The caller has looked at the result of the call and goes on.
DoReturn ==
    /\ ~Idle
    /\ last' = NoCall
    /\ misuse' = {}
    /\ UNCHANGED <<data, size, alive, blk, live, copied, rt, lin, sys>>

Next ==
    \/ DoReturn
    \/ DoVectorDefault
    \/ DoVectorSize
    \/ DoVectorValues
    \/ DoVectorCopy
    \/ DoVectorMove
    \/ DoDtor
    \/ DoWrite
    \/ DoClear
    \/ DoResize
    \/ DoPushBack
    \/ DoPushBackElement
    \/ DoPopBack
    \/ DoAssign
    \/ DoPlusAssign
    \/ DoPlusAssignValues

Spec == Init /\ [][Next]_vars

\* ------------------------------------------------- the model under test
\* A default-constructed model on which LoadTrainingData, Train and Predict
\* are called one after the other, as in lin_reg_test.cpp.  Train's loop is
\* stepped one epoch at a time; no other call is made while it runs.
LinIdle == lin.pc = "idle"

DoLoadTrainingData ==
    /\ LinIdle
    /\ lin.loads < MaxLoads
    /\ \E d \in TrainingSets :
           lin' = [LoadTrainingData(lin, d.inputs, d.outputs) EXCEPT
                     !.loads = @ + 1,
                     !.call = LinCall(lin, "LoadTrainingData", Len(d.inputs), 0)]
    /\ UNCHANGED <<data, size, alive, blk, live, misuse, last, copied, rt,
                   sys>>

\* Train(epochs) is entered; the long run of TrainEpochs passes is made as the
\* first training of a model, as main.cpp and the tests make it.
DoTrain ==
    /\ LinIdle
    /\ Len(lin.runs) < MaxTrainCalls
    /\ \E epochs \in (0..MaxEpochs) \cup {TrainEpochs} :
           /\ epochs = TrainEpochs => lin.runs = <<>>
           /\ lin' = TrainEnter(lin, epochs)
    /\ UNCHANGED <<data, size, alive, blk, live, misuse, last, copied, rt,
                   sys>>

\* one pass of Train's loop
DoTrainEpoch ==
    /\ lin.pc = "training"
    /\ lin.left > 0
    /\ lin' = [TrainEpoch(lin) EXCEPT !.left = @ - 1]
    /\ UNCHANGED <<data, size, alive, blk, live, misuse, last, copied, rt,
                   sys>>

\* Train returns
DoTrainReturn ==
    /\ lin.pc = "training"
    /\ lin.left = 0
    /\ lin' = TrainReturn(lin)
    /\ UNCHANGED <<data, size, alive, blk, live, misuse, last, copied, rt,
                   sys>>

DoPredict ==
    /\ LinIdle
    /\ \E x \in 0..MaxX :
           LET q == Predict(lin, x)
           IN  lin' = [q.st EXCEPT !.call = LinCall(lin, "Predict", x, q.ret)]
    /\ UNCHANGED <<data, size, alive, blk, live, misuse, last, copied, rt,
                   sys>>

NextLinReg ==
    \/ DoLoadTrainingData
    \/ DoTrain
    \/ DoTrainEpoch
    \/ DoTrainReturn
    \/ DoPredict

SpecLinReg == Init /\ [][NextLinReg]_vars

\* ------------------------------------------------- the embedded program
\* main runs Setup statement by statement and then loops; an interrupt runs
\* its callback to the end between two steps of main, also between two passes
\* of Train's loop.
\* The state a step of main or a callback starts from.
Sys == [sys |-> [sys EXCEPT !.did = {}], lin |-> lin]

\* st is the state the step cb ends in, cond the condition it tested.
Run(st, cb, cond) ==
    /\ sys' = [st.sys EXCEPT !.event =
                  [cb |-> cb, cond |-> cond,
                   predicted |-> "Predict" \in st.sys.did,
                   restarted |-> "timer1.Restart" \in st.sys.did]]
    /\ lin' = st.lin
    /\ UNCHANGED <<data, size, alive, blk, live, misuse, last, copied, rt>>

\* the next statement of Setup; main is not inside Train
DoSetup ==
    /\ sys.pc <= Len(SetupOrder)
    /\ LinIdle
    /\ \E adc \in AdcReadings :
           LET stmt == SetupOrder[sys.pc]
               st == Statement(Sys, stmt, adc)
           IN  /\ stmt # "PredictTemp" => adc = 0
               /\ Run([st EXCEPT !.sys.pc = @ + 1], "Setup", TRUE)

\* while (1) watchdog::Reset()
DoMainLoop ==
    /\ InLoop(sys)
    /\ LinIdle
    /\ Run([Sys EXCEPT !.sys.wdt.count = 0], "main", TRUE)

\* the watchdog counts; main resets it before it reaches its timeout
WatchdogCounts ==
    /\ sys.wdt.init
    /\ sys.wdt.count < WatchdogTicks
    /\ sys' = [sys EXCEPT !.wdt.count = @ + 1]
    /\ UNCHANGED <<data, size, alive, blk, live, misuse, last, copied, rt,
                   lin>>

\* pin change interrupt of button1
ButtonInterrupt ==
    /\ sys.pin_irq
    /\ sys.port_irq
    /\ "ButtonCallback" \in sys.registered
    /\ \E level \in BOOLEAN, adc \in AdcReadings :
           /\ ~level => adc = 0
           /\ Run(ButtonCallback(Sys, level, adc), "ButtonCallback", level)

Timer0Interrupt ==
    /\ sys.timer0.on
    /\ "Timer0Callback" \in sys.registered
    /\ Run(Timer0Callback(Sys), "Timer0Callback",
           Elapsed(sys.timer0, Timer0Ticks).ret)

Timer1Interrupt ==
    /\ sys.timer1.on
    /\ "Timer1Callback" \in sys.registered
    /\ \E adc \in AdcReadings :
           LET elapsed == Elapsed(sys.timer1, Timer1Ticks).ret
           IN  /\ ~elapsed => adc = 0
               /\ Run(Timer1Callback(Sys, adc), "Timer1Callback", elapsed)

NextSys ==
    \/ DoSetup
    \/ DoTrainEpoch
    \/ DoTrainReturn
    \/ DoMainLoop
    \/ WatchdogCounts
    \/ ButtonInterrupt
    \/ Timer0Interrupt
    \/ Timer1Interrupt

SpecSys == Init /\ [][NextSys]_vars

\* The program with a timer0 that keeps interrupting while it is started.
SpecSysFair == SpecSys /\ WF_vars(Timer0Interrupt)

\* ------------------------------------------------- the round trip scenario
\* A test that default-constructs container A, calls PushBack k times and then
\* PopBack k times.
InitRT ==
    /\ data = [v \in V |-> nullptr]
    /\ size = [v \in V |-> 0]
    /\ alive = [v \in V |-> v = "A"]
    /\ blk = [a \in Addr |-> <<>>]
    /\ live = {}
    /\ misuse = {}
    /\ last = NoCall
    /\ copied = {}
    /\ rt = NoRt
    /\ lin = NoLin
    /\ sys = NoSys

RTPushBack ==
    /\ Idle
    /\ rt.pops = 0
    /\ rt.pushes < MaxRoundTrip
    /\ \E value \in Val, r \in Choice(1) :
           LET q == PushBack(State, "A", [kind |-> "ext", val |-> value],
                             r, value)
           IN  /\ Apply(q.st)
               /\ last' = Rec("PushBack", "A", "-", 0, value, q.ret,
                              Fails(State, "A", size["A"] + 1, r))
               /\ rt' = [rt EXCEPT !.pushes = @ + 1,
                                   !.grown = IF q.ret THEN @ + 1 ELSE @]
    /\ UNCHANGED <<alive, copied, lin, sys>>

RTPopBack ==
    /\ Idle
    /\ rt.pops < rt.pushes
    /\ \E r \in Choice(0) :
           LET q == PopBack(State, "A", r)
           IN  /\ Apply(q.st)
               /\ last' = Rec("PopBack", "A", "-", 0, "-", q.ret,
                              size["A"] > 1 /\ Fails(State, "A", size["A"] - 1, r))
               /\ rt' = [rt EXCEPT !.pops = @ + 1,
                                   !.failed = IF q.ret THEN @ ELSE @ + 1]
    /\ UNCHANGED <<alive, copied, lin, sys>>

NextRT ==
    \/ DoReturn
    \/ RTPushBack
    \/ RTPopBack

SpecRT == InitRT /\ [][NextRT]_vars

\* ------------------------------------------------------------------ claims
Now(v) == Values(State, v)
Was(v) == last.pre[v]
Min(a, b) == IF a < b THEN a ELSE b

\* C1: when the allocation inside Resize(new_size) fails, Resize returns false
\* and the container's size and elements are what they were before the call;
\* when it succeeds, Resize returns true and Size() equals new_size.
C1_ResizeAllOrNothing ==
    last.op = "Resize" =>
        IF last.ret
        THEN size[last.self] = last.n
        ELSE Now(last.self) = Was(last.self)

\* A Resize to another size failed on a container that holds elements.
C1_Witness ==
    /\ last.op = "Resize"
    /\ ~last.ret
    /\ Len(Was(last.self)) >= 1
    /\ last.n # Len(Was(last.self))

\* C2: a successful Resize(m) of a container holding v_0..v_{n-1} keeps the
\* values at indices 0..min(n,m)-1, at the same indices, growing or shrinking.
C2_ResizePreservesPrefix ==
    (last.op = "Resize" /\ last.ret) =>
        \A i \in 1..Min(Len(Was(last.self)), last.n) :
            Now(last.self)[i] = Was(last.self)[i]

\* A Resize shrank a container of two elements to one.
C2_Witness ==
    /\ last.op = "Resize"
    /\ last.ret
    /\ last.n = 1
    /\ Len(Was(last.self)) = 2

\* C3 as stated: PopBack returns true in every state, and a container of size
\* n >= 1 has size n - 1 afterwards.
C3_PopBackAlwaysSucceeds ==
    last.op = "PopBack" =>
        /\ last.ret
        /\ Len(Was(last.self)) >= 1 => size[last.self] = Len(Was(last.self)) - 1

\* C3 amended: PopBack on a container of size n <= 1 returns true and leaves it
\* fully cleared; on size n >= 2 it returns the result of Resize(n - 1): true
\* with size n - 1, or false with size and elements unchanged.
C3_PopBackResult ==
    last.op = "PopBack" =>
        IF Len(Was(last.self)) <= 1
        THEN /\ last.ret
             /\ size[last.self] = 0
             /\ data[last.self] = nullptr
        ELSE IF last.ret
             THEN size[last.self] = Len(Was(last.self)) - 1
             ELSE Now(last.self) = Was(last.self)

\* A PopBack on a container of two elements returned false.
C3_Witness ==
    /\ last.op = "PopBack"
    /\ ~last.ret
    /\ Len(Was(last.self)) = 2

\* The mutating operations whose allocation can fail, operator= apart.
Growers ==
    {"Resize", "PushBack", "PushBack(v[i])", "PopBack", "operator+=",
     "operator+=(values)"}

\* C4 as stated: whenever the allocation of Resize, PushBack, PopBack,
\* operator+= or operator= fails, size and elements equal those before it.
C4_FailureLeavesStateUnchanged ==
    (last.op \in Growers \cup {"operator="} /\ ~last.ret) =>
        Now(last.self) = Was(last.self)

\* C4 amended: a failed Resize, PushBack, PopBack or operator+= leaves size and
\* elements as before the call; a failed operator= leaves the assigned
\* container cleared (size 0, no block), its previous values gone.
C4_FailureUnchangedOrCleared ==
    ~last.ret =>
        /\ last.op \in Growers => Now(last.self) = Was(last.self)
        /\ last.op = "operator=" =>
               /\ size[last.self] = 0
               /\ data[last.self] = nullptr

\* An operator= whose allocation failed on a container that held elements.
C4_Witness ==
    /\ last.op = "operator="
    /\ ~last.ret
    /\ last.src # last.self
    /\ Len(Was(last.self)) >= 1

\* C5: PushBack(value) on a container of size n, value an object outside the
\* container: when it returns true the size is n + 1, the element at index n is
\* value and the elements 0..n-1 are unchanged; when it returns false size and
\* elements are unchanged.
C5_PushBackAppends ==
    last.op = "PushBack" =>
        IF last.ret
        THEN Now(last.self) = Append(Was(last.self), last.val)
        ELSE Now(last.self) = Was(last.self)

\* A PushBack onto a container that held an element returned true.
C5_Witness ==
    /\ last.op = "PushBack"
    /\ last.ret
    /\ Len(Was(last.self)) >= 1

C7_EmptyHoldsNoBlock ==
    \A v \in V : (alive[v] /\ size[v] = 0) => data[v] = nullptr

\* C8: once b is a copy of a, a and b own distinct blocks, a mutation of b
\* leaves a's size and values unchanged and a mutation of a leaves b's.
C8_CopyIndependence ==
    \A p \in copied :
        /\ data[p[1]] # nullptr => data[p[1]] # data[p[2]]
        /\ last.self = p[1] => Now(p[2]) = Was(p[2])
        /\ last.self = p[2] => Now(p[1]) = Was(p[1])

\* An element of a copy was overwritten; the original kept its values and now
\* differs from the copy.
C8_Witness ==
    \E p \in copied :
        /\ last.op = "operator[]"
        /\ last.self = p[1]
        /\ Len(Now(p[2])) >= 1
        /\ Now(p[2]) = Was(p[2])
        /\ Was(p[1]) = Was(p[2])
        /\ Now(p[1]) # Now(p[2])

\* C9: after move-constructing b from a, a has Size() == 0 and a null block and
\* b has the size and values, in order, that a had.
C9_MoveEmptiesSource ==
    last.op = "Vector(move)" =>
        /\ size[last.src] = 0
        /\ data[last.src] = nullptr
        /\ Now(last.self) = Was(last.src)

\* A container of two elements was moved from.
C9_Witness ==
    /\ last.op = "Vector(move)"
    /\ Len(Was(last.src)) = 2

\* C10: after a += b whose reallocation succeeded (b may be a itself), a holds
\* its previous elements followed by b's values in order.
C10_ConcatenationLaw ==
    (last.op = "operator+=" /\ last.ret) =>
        Now(last.self) = Was(last.self) \o Was(last.src)

\* A container holding an element was appended to itself.
C10_Witness ==
    /\ last.op = "operator+="
    /\ last.ret
    /\ last.src = last.self
    /\ Len(Was(last.self)) >= 1

\* The public methods that return bool.
BoolMethods == {"Resize", "PushBack", "PushBack(v[i])", "PopBack"}

\* The public operators that reallocate and return no value.
VoidOperators == {"operator=", "operator+=", "operator+=(values)"}

\* C11 as stated: Resize, PushBack, PopBack, operator+= and operator= hand
\* their caller a boolean that is false exactly when their allocation failed.
C11_FailureReportedByBoolean ==
    last.op \in BoolMethods \cup VoidOperators =>
        /\ last.out \in {"true", "false"}
        /\ last.failed <=> last.out = "false"

\* C11 amended: Resize, PushBack and PopBack return false exactly when their
\* allocation failed; operator+= and operator= return no value, whether their
\* allocation failed or not.
C11_FailureReportedByBoolMethods ==
    /\ last.op \in BoolMethods => (last.failed <=> last.out = "false")
    /\ last.op \in VoidOperators => last.out = "void"

\* An operator+= whose allocation failed handed nothing to its caller.
C11_Witness ==
    /\ last.op = "operator+="
    /\ last.failed
    /\ last.out = "void"

\* C12: when the allocation made by Vector(size) or Vector(literal) fails, the
\* constructed container exists and is empty: Size() == 0 and a null block.
C12_ConstructionDegradesToEmpty ==
    (last.op \in {"Vector(size)", "Vector(values)"} /\ last.failed) =>
        /\ alive[last.self]
        /\ size[last.self] = 0
        /\ data[last.self] = nullptr

\* A construction with a size of at least one failed to allocate.
C12_Witness ==
    /\ last.op = "Vector(size)"
    /\ last.failed
    /\ last.n >= 1

\* C13: construction from a literal of length n whose allocation succeeds
\* yields Size() == n and, at each index, the literal's value.
C13_LiteralConstruction ==
    (last.op = "Vector(values)" /\ ~last.failed) =>
        /\ size[last.self] = last.n
        /\ Now(last.self) = last.val

\* A container was constructed from a literal of two different values.
C13_Witness ==
    /\ last.op = "Vector(values)"
    /\ ~last.failed
    /\ last.n = 2
    /\ last.val[1] # last.val[2]

\* C14: Clear() leaves Size() == 0 with no block held, and a second Clear()
\* right after it leaves exactly the same state.
C14_ClearIdempotent ==
    last.op = "Clear" =>
        /\ size[last.self] = 0
        /\ data[last.self] = nullptr
        /\ Clear(State, last.self) = State

\* A container that held elements was cleared.
C14_Witness ==
    /\ last.op = "Clear"
    /\ Len(Was(last.self)) >= 1

\* C15 as stated: after a = b whose allocation succeeds, a has the values b
\* had before the call and b is unchanged, also when b is a itself.
C15_AssignmentCopiesSource ==
    (last.op = "operator=" /\ ~last.failed) =>
        /\ Now(last.self) = Was(last.src)
        /\ Now(last.src) = Was(last.src)

\* What Predict returns is off the target y by at most 0.001.
Tolerance == Scale \div 1000
Abs(a) == IF a < 0 THEN -a ELSE a

\* C16: Train(0) leaves bias and weight exactly at the values they had before
\* the call, whatever the parameters and the training data are.
C16_ZeroEpochsNoOp ==
    (lin.call.op = "Train" /\ lin.call.arg = 0) =>
        /\ lin.bias = lin.call.pre.bias
        /\ lin.weight = lin.call.pre.weight

\* Train(0) returned on a trained model that holds training data.
C16_Witness ==
    /\ lin.call.op = "Train"
    /\ lin.call.arg = 0
    /\ LinIdle
    /\ lin.call.pre.bias # 0
    /\ lin.call.pre.weight # 0
    /\ lin.inputs # <<>>

\* C17: Train(epochs) on a model whose training set is empty makes no error and
\* leaves bias and weight at the values they had before the call: they stay
\* there during every pass, and the passes left to make never exceed epochs and
\* go down with every pass, so the call returns after at most epochs passes.
C17_EmptySetNoOp ==
    (lin.call.op = "Train" /\ lin.call.pre.inputs = <<>>) =>
        /\ lin.bias = lin.call.pre.bias
        /\ lin.weight = lin.call.pre.weight
        /\ lin.left >= 0
        /\ lin.left <= lin.call.arg

\* Train with at least one epoch returned on a model with parameters away
\* from zero and an empty training set.
C17_Witness ==
    /\ lin.call.op = "Train"
    /\ lin.call.arg >= 1
    /\ LinIdle
    /\ lin.call.pre.inputs = <<>>
    /\ lin.call.pre.outputs = <<>>
    /\ lin.call.pre.bias # 0

\* C18: Predict(x) returns bias + weight * x, leaves bias, weight and the
\* training data as they were, and returns the same result as the call before
\* it when that was Predict with the same x.
C18_PredictPure ==
    lin.call.op = "Predict" =>
        /\ lin.call.ret = lin.call.pre.bias + lin.call.pre.weight * lin.call.arg
        /\ Params(lin) = lin.call.pre
        /\ (lin.call.prev.op = "Predict" /\ lin.call.prev.arg = lin.call.arg)
               => lin.call.ret = lin.call.prev.ret

\* Predict was called twice in a row with the same x > 0 on a trained model.
C18_Witness ==
    /\ lin.call.op = "Predict"
    /\ lin.call.prev.op = "Predict"
    /\ lin.call.prev.arg = lin.call.arg
    /\ lin.call.arg > 0
    /\ lin.bias # 0
    /\ lin.weight # 0

\* C19 as stated: on a model loaded with inputs 0..4 and the outputs of one of
\* the three tested lines and then trained once with Train(1000), Predict(x_i)
\* is within 0.001 of y_i for every training pair.
C19_TrainingConverges ==
    (/\ lin.call.op = "Predict"
     /\ lin.runs = <<[epochs |-> TrainEpochs, inputs |-> TestInputs,
                      outputs |-> lin.outputs]>>
     /\ lin.inputs = TestInputs
     /\ \E k \in 1..Len(TestOutputs) : lin.outputs = TestOutputs[k]
     /\ \E i \in 1..Len(TestInputs) : TestInputs[i] = lin.call.arg)
    => \A i \in 1..Len(TestInputs) :
           TestInputs[i] = lin.call.arg =>
               Abs(lin.call.ret - lin.outputs[i] * Scale) <= Tolerance

\* The one training of the program has been made: the data of Setup was
\* loaded, Train(1000) ran on it and returned, and no other Train call has.
TrainedOnce ==
    /\ LinIdle
    /\ lin.loads = 1
    /\ lin.runs = <<[epochs |-> TrainEpochs, inputs |-> TestInputs,
                     outputs |-> TestOutputs[3]]>>

\* The callbacks that call PredictTemp.
Predictors == {"ButtonCallback", "Timer1Callback"}

\* C20: LoadTrainingData and Train(1000) have completed before a callback that
\* can call Predict is registered or its interrupt (the button's pin change
\* interrupt, timer1) is enabled; Train runs only while main is in Setup, and
\* it is invoked once in the whole execution.
C20_TrainingOnlyInSetup ==
    /\ (\/ sys.registered \cap Predictors # {}
        \/ sys.pin_irq
        \/ sys.timer1.on) => TrainedOnce
    /\ lin.pc = "training" => ~InLoop(sys)
    /\ sys.trains <= 1
    /\ InLoop(sys) => (sys.trains = 1 /\ TrainedOnce)

\* After Setup, with main in its loop, the button callback and then the timer
\* callback have predicted with the trained model.
C20_Witness ==
    /\ InLoop(sys)
    /\ Predictors \subseteq sys.registered
    /\ sys.pin_irq
    /\ sys.event.cb = "Timer1Callback"
    /\ sys.event.predicted
    /\ lin.call.op = "Predict"
    /\ lin.call.prev.op = "Predict"
    /\ TrainedOnce

\* The button's interrupt was enabled by Setup and its port's interrupts are
\* off: only ButtonCallback turns them off.
Debouncing == sys.pin_irq /\ ~sys.port_irq

\* C21: a ButtonCallback leaves the port's pin change interrupts disabled and
\* timer0 started; they are re-enabled only by a Timer0Callback that saw timer0
\* elapsed, which also stops timer0; and with timer0 interrupting they are
\* re-enabled eventually.
C21_ButtonDebounce ==
    /\ [](sys.event.cb = "ButtonCallback" => (Debouncing /\ sys.timer0.on))
    /\ [](Debouncing => sys.timer0.on)
    /\ [][(Debouncing /\ sys'.port_irq) =>
              (/\ sys'.event.cb = "Timer0Callback"
               /\ sys'.event.cond
               /\ ~sys'.timer0.on)]_vars
    /\ (Debouncing ~> sys.port_irq)

\* A Timer0Callback saw timer0 elapsed after a button edge and re-enabled the
\* interrupts.
C21_Witness ==
    /\ InLoop(sys)
    /\ sys.event.cb = "Timer0Callback"
    /\ sys.event.cond
    /\ sys.port_irq
    /\ sys.pin_irq
    /\ ~sys.timer0.on

Alive == {v \in V : alive[v]}

\* C23: no block is released twice (every block handed to the allocator for
\* release or reallocation is allocated at the time); every allocated block
\* belongs to exactly one living container; and once every container has been
\* destroyed no block is allocated.
C23_ReleasedExactlyOnce ==
    /\ "release" \notin misuse
    /\ live = {data[v] : v \in Alive} \ {nullptr}
    /\ \A v, w \in Alive : (v # w /\ data[v] = data[w]) => data[v] = nullptr
    /\ Alive = {} => live = {}

\* The last living container, which held elements, has been destroyed after
\* the other one was destroyed too.
C23_Witness ==
    /\ last.op = "~Vector"
    /\ Alive = {}
    /\ Len(Was(last.self)) >= 1
    /\ live = {}

\* C24 as stated: after v.PushBack(v[i]) returns true the elements of v are
\* the ones it had with the value v[i] had before the call appended, and the
\* call read no released block.
C24_PushBackElementAppends ==
    (last.op = "PushBack(v[i])" /\ last.ret) =>
        /\ Now(last.self) = Append(Was(last.self), Was(last.self)[last.n])
        /\ "read" \notin misuse

====
